---- MODULE Spec2Model ----
(***************************************************************************)
(* Model of gsd/hoomd.py: the hoomd schema layer over a chunked GSD file.  *)
(*                                                                         *)
(* State: the GSD file (committed frames and the chunks staged for the     *)
(* frame not yet committed), the handle's cached initial frame             *)
(* (HOOMDTrajectory._initial_frame), and the outcome of the last call.     *)
(* Operations: HOOMDTrajectory.append, HOOMDTrajectory.read_frame and      *)
(* HOOMDTrajectory.__init__ (a new handle over the same file).             *)
(*                                                                         *)
(* Python values are represented as follows.                               *)
(*   None                      <<>>                                        *)
(*   a non-None value v        <<v>>                                       *)
(*   a str                     the sequence of its code points             *)
(*   a list of str             a sequence of such sequences                *)
(*   an array of shape [N]     a sequence of N numbers                     *)
(*   an array of shape [N, k]  a sequence of N rows, each k numbers        *)
(*   user input for a field    the flat sequence of its elements           *)
(***************************************************************************)
EXTENDS Integers, Sequences, FiniteSets, TLC

\* Bound of the model: the number of frames the file may hold.
MaxFrames == 2

None == <<>>
Some(v) == <<v>>

Min(S) == CHOOSE x \in S : \A y \in S : x <= y
Max(S) == CHOOSE x \in S : \A y \in S : x >= y

(***************************************************************************)
(* SnapshotParticleData._default_value: the ordered field catalog.         *)
(***************************************************************************)
\* The catalog in the order validate() visits the attributes.
Catalog_as_validated ==
    << "N", "types", "position", "orientation", "typeid", "mass", "charge",
       "diameter", "moment_inertia", "velocity", "angmom", "image" >>

Catalog == << "N", "types", "typeid", "mass", "charge", "diameter",
              "moment_inertia", "position", "orientation", "velocity",
              "angmom", "image" >>

CatalogSet == { Catalog[i] : i \in 1..Len(Catalog) }

PerParticle == CatalogSet \ {"N", "types"}

\* The str 'A' and another one-letter name.
NameA == <<65>>
NameB == <<66>>

default_value(name) ==
    CASE name = "N"              -> 0
      [] name = "types"          -> << NameA >>
      [] name = "typeid"         -> 0
      [] name = "mass"           -> 1
      [] name = "charge"         -> 0
      [] name = "diameter"       -> 1
      [] name = "moment_inertia" -> <<0, 0, 0>>
      [] name = "position"       -> <<0, 0, 0>>
      [] name = "orientation"    -> <<1, 0, 0, 0>>
      [] name = "velocity"       -> <<0, 0, 0>>
      [] name = "angmom"         -> <<0, 0, 0, 0>>
      [] name = "image"          -> <<0, 0, 0>>

\* Trailing dimension of a per-particle field in validate(): 0 stands for
\* the one-dimensional shape [N].
Cols(name) ==
    CASE name \in {"typeid", "mass", "charge", "diameter"}              -> 0
      [] name \in {"moment_inertia", "position", "velocity", "image"}   -> 3
      [] name \in {"orientation", "angmom"}                             -> 4

\* The order in which validate() visits the per-particle attributes.
ValidateOrder == << "position", "orientation", "typeid", "mass", "charge",
                    "diameter", "moment_inertia", "velocity", "angmom",
                    "image" >>

\* SnapshotParticleData.__init__: N = 0 and every other attribute None.
NewParticleData == [ name \in CatalogSet |-> IF name = "N" THEN 0 ELSE None ]

(***************************************************************************)
(* numpy helpers used by validate(), _should_write() and read_frame().     *)
(***************************************************************************)

\* Number of elements an array of shape [n] or [n, cols] holds.
ElementCount(n, cols) == IF cols = 0 THEN n ELSE n * cols

\* flat.reshape([n]) or flat.reshape([n, cols]); defined when the element
\* count fits.
reshape(flat, n, cols) ==
    IF cols = 0
    THEN flat
    ELSE [ i \in 1..n |-> SubSeq(flat, (i - 1) * cols + 1, i * cols) ]

reshape_ok(flat, n, cols) == Len(flat) = ElementCount(n, cols)

\* numpy.all(a == b) for two arrays with the same trailing dimensions:
\* elementwise with broadcasting of a leading dimension of 1; arrays whose
\* shapes do not broadcast compare unequal as a whole.
all_equal_arrays(a, b) ==
    IF Len(a) = Len(b) THEN \A i \in 1..Len(a) : a[i] = b[i]
    ELSE IF Len(a) = 1 THEN \A i \in 1..Len(b) : b[i] = a[1]
    ELSE IF Len(b) = 1 THEN \A i \in 1..Len(a) : a[i] = b[1]
    ELSE FALSE

\* numpy.all(a == d) for an array a and a default d (a scalar or one row).
all_equal_default(a, d) == \A i \in 1..Len(a) : a[i] = d

\* numpy.resize(numpy.array([d]), [n, ...]): the default repeated n times.
broadcast_default(d, n) == [ i \in 1..n |-> d ]


(***************************************************************************)
(* SnapshotParticleData.validate()                                         *)
(***************************************************************************)

\* What validate() raises while it handles one attribute, or "ok".  The
\* moment_inertia branch reads self.moment_interia, an attribute no
\* instance has, before it reshapes.
validate_error(S, name) ==
    IF S[name] = None THEN "ok"
    ELSE IF name = "moment_inertia" THEN "AttributeError"
    ELSE IF ~reshape_ok(S[name][1], S["N"], Cols(name)) THEN "ValueError(reshape)"
    ELSE "ok"

\* The first attribute, in visiting order, at which validate() raises; 0
\* when none does.
first_invalid(S) ==
    Min({ i \in 1..Len(ValidateOrder) : validate_error(S, ValidateOrder[i]) # "ok" }
        \cup { Len(ValidateOrder) + 1 }) % (Len(ValidateOrder) + 1)

validate_at(S, bad) ==
    IF bad # 0
    THEN [ error |-> validate_error(S, ValidateOrder[bad]), particles |-> S ]
    ELSE [ error |-> "ok",
           particles |->
             [ name \in CatalogSet |->
                 IF name \in PerParticle /\ S[name] # None
                 THEN Some(reshape(S[name][1], S["N"], Cols(name)))
                 ELSE S[name] ] ]

\* validate(): the first error in visiting order, or every present
\* per-particle attribute reshaped to its N rows.
validate(S) == validate_at(S, first_invalid(S))

(***************************************************************************)
(* The types chunk: append() lines 201-204 and read_frame() lines 291-294. *)
(***************************************************************************)

\* max(len(w) for w in data) raises ValueError on an empty list.
encode_types_ok(data) == Len(data) > 0

\* numpy.array(data, dtype=(bytes, wid)) converts each str with the ASCII
\* codec: a character above 127 raises UnicodeEncodeError (line 203).
encode_types_ascii(data) ==
    \A i \in 1..Len(data) : \A j \in 1..Len(data[i]) : data[i][j] < 128

\* One row per name, wid = longest name + 1 columns, zero padded.
encode_types(data) ==
    LET wid == Max({ Len(data[i]) : i \in 1..Len(data) }) + 1
    IN  [ i \in 1..Len(data) |->
            [ j \in 1..wid |-> IF j <= Len(data[i]) THEN data[i][j] ELSE 0 ] ]

\* A fixed-width bytes element read back: trailing zero bytes are dropped.
decode_name(row) ==
    LET nz == { j \in 1..Len(row) : row[j] # 0 }
    IN  IF nz = {} THEN <<>> ELSE SubSeq(row, 1, Max(nz))

decode_types(matrix) == [ i \in 1..Len(matrix) |-> decode_name(matrix[i]) ]

(***************************************************************************)
(* The chunked file (gsd.fl.GSDFile): committed frames, each a map from    *)
(* chunk name to its data or None, and the chunks staged for the next      *)
(* frame.  The chunk 'particles/<name>' is keyed by <name>.                *)
(***************************************************************************)
NoChunks == [ name \in CatalogSet |-> None ]

nframes(f) == Len(f.frames)

write_chunk(f, name, data) == [ f EXCEPT !.staged[name] = Some(data) ]

end_frame(f) == [ f EXCEPT !.frames = Append(f.frames, f.staged), !.staged = NoChunks ]

chunk_exists(f, frame, name) ==
    /\ frame \in 0..(nframes(f) - 1)
    /\ f.frames[frame + 1][name] # None

read_chunk(f, frame, name) == f.frames[frame + 1][name][1]


(***************************************************************************)
(* State.                                                                  *)
(*   file           the GSDFile: [frames, staged]                          *)
(*   initial_frame  HOOMDTrajectory._initial_frame: None or Some(snapshot) *)
(*   last           the last call: what it was given, what it raised or    *)
(*                  returned, and the file calls it made                   *)
(*   history        per committed frame, the validated snapshot whose      *)
(*                  append committed it and the chunk names that an        *)
(*                  earlier, failed append had left staged in it           *)
(*   stale          the chunk names now staged by appends that failed      *)
(* A snapshot object is [id, particles, writeable, source]: id is its      *)
(* identity, writeable the flags.writeable of each per-particle array and  *)
(* source the branch of read_frame that filled the attribute.              *)
(***************************************************************************)
VARIABLES file, initial_frame, last, history, stale

vars == << file, initial_frame, last, history, stale >>

\* Identity of a new Snapshot(): an address no live snapshot of the handle
\* has.
fresh_id(live) == Min((1..(Cardinality(live) + 1)) \ live)

ids_of(cache) == IF cache = None THEN {} ELSE { cache[1].id }

(***************************************************************************)
(* HOOMDTrajectory.read_frame()                                            *)
(***************************************************************************)

\* resolve_N that does not look for the frame's own N chunk.
resolve_N_from_cache(f, cache, idx) ==
    IF cache # None THEN cache[1].particles["N"] ELSE 0

\* Lines 281-287: the particle count of the frame.
resolve_N(f, cache, idx) ==
    IF chunk_exists(f, idx, "N") THEN read_chunk(f, idx, "N")[1]
    ELSE IF cache # None THEN cache[1].particles["N"]
    ELSE 0

\* Lines 290-299: the type names of the frame.
resolve_types(f, cache, idx) ==
    IF chunk_exists(f, idx, "types")
    THEN Some(decode_types(read_chunk(f, idx, "types")))
    ELSE IF cache # None THEN cache[1].particles["types"]
    ELSE Some(default_value("types"))

\* field_source without the comparison of the counts at line 309.
field_source_any_count(f, cache, idx, name, N) ==
    IF chunk_exists(f, idx, name) THEN "chunk"
    ELSE IF cache # None THEN "frame0"
    ELSE "default"

\* Lines 306-317: which branch fills a per-particle attribute.
field_source(f, cache, idx, name, N) ==
    IF chunk_exists(f, idx, name) THEN "chunk"
    ELSE IF cache # None /\ cache[1].particles["N"] = N THEN "frame0"
    ELSE "default"

\* resolve_field with line 319 reached only on the default branch: an
\* array aliased from the cached frame 0 keeps its writeable flag set.
resolve_field_alias_writeable(f, cache, idx, name, N) ==
    LET source == field_source(f, cache, idx, name, N)
    IN  [ source |-> source,
          value |-> CASE source = "chunk"  -> Some(read_chunk(f, idx, name))
                      [] source = "frame0" -> cache[1].particles[name]
                      [] OTHER -> Some(broadcast_default(default_value(name), N)),
          writeable |-> source # "default" ]

\* Lines 306-319: the array of a per-particle attribute and its
\* flags.writeable.  An array read from a chunk is writeable; one filled by
\* either fallback is made read-only (line 319).
resolve_field(f, cache, idx, name, N) ==
    LET source == field_source(f, cache, idx, name, N)
    IN  [ source |-> source,
          value |-> CASE source = "chunk"  -> Some(read_chunk(f, idx, name))
                      [] source = "frame0" -> cache[1].particles[name]
                      [] OTHER -> Some(broadcast_default(default_value(name), N)),
          writeable |-> source = "chunk" ]

\* Lines 275-319: the Snapshot object assembled from the resolved count
\* and per-particle attributes.
make_snapshot(f, cache, idx, id, N, fields) ==
    [ id |-> id,
      particles |->
        [ name \in CatalogSet |->
            IF name = "N" THEN N
            ELSE IF name = "types" THEN resolve_types(f, cache, idx)
            ELSE fields[name].value ],
      writeable |-> [ name \in PerParticle |-> fields[name].writeable ],
      source |-> [ name \in PerParticle |-> fields[name].source ] ]

resolve_fields(f, cache, idx, N) ==
    [ name \in PerParticle |-> resolve_field(f, cache, idx, name, N) ]

with_N(f, cache, idx, id, N) ==
    make_snapshot(f, cache, idx, id, N, resolve_fields(f, cache, idx, N))

\* The Snapshot built for frame idx with the cache as it is.
build_snapshot(f, cache, idx, id) ==
    with_N(f, cache, idx, id, resolve_N(f, cache, idx))

\* Line 319 on an aliased array: the array is the cached snapshot's own, so
\* its flag changes there too.
cache_after_alias(cache, snap) ==
    IF cache = None THEN None
    ELSE Some([ cache[1] EXCEPT !.writeable =
                  [ name \in PerParticle |->
                      IF snap.source[name] = "frame0" THEN FALSE
                      ELSE cache[1].writeable[name] ] ])

\* chunk_exists and read_chunk calls made while building frame idx.
count_queries(f, idx) ==
    Len(Catalog) + Cardinality({ name \in CatalogSet : chunk_exists(f, idx, name) })

\* store_initial_frame without the 'is None' guard: every read of frame 0
\* replaces the cache.
store_initial_frame_unguarded(cache, idx, snap) ==
    IF idx = 0 THEN Some(snap) ELSE cache_after_alias(cache, snap)

\* Lines 321-323: the snapshot becomes the cache when there is none and
\* idx is 0.
store_initial_frame(cache, idx, snap) ==
    IF cache = None /\ idx = 0 THEN Some(snap) ELSE cache_after_alias(cache, snap)

\* The bounds check off by one: idx = len passes.
index_error_off_by_one(f, idx) == idx > nframes(f)

\* Line 267: the bounds check.
index_error(f, idx) == idx >= nframes(f)

\* Line 272 with the comparison inverted: frame 0 is read first only when
\* frame 0 itself is asked for.
needs_initial_frame_for_first(cache, idx) == cache = None /\ idx = 0

\* read_frame that never reads frame 0 first.
needs_initial_frame_never(cache, idx) == FALSE

\* Lines 272-273: frame 0 is read first when the cache is unset.
needs_initial_frame(cache, idx) == cache = None /\ idx # 0

\* Lines 321-325: store the initial frame and return the snapshot.
finish_read(cache, idx, snap, queries) ==
    [ error |-> "ok", ret |-> Some(snap),
      cache |-> store_initial_frame(cache, idx, snap),
      queries |-> queries ]

\* One call of read_frame without the recursion: the cache is the one the
\* body runs with.  negative is what the file does when asked for a frame
\* below 0: "absent" (no such chunk) or "error" (it raises).
read_frame_body(f, cache, idx, negative, queries) ==
    IF idx < 0 /\ negative = "error"
    THEN [ error |-> "OverflowError", ret |-> None, cache |-> cache,
           queries |-> queries + 1 ]
    ELSE finish_read(cache, idx,
                     build_snapshot(f, cache, idx, fresh_id(ids_of(cache))),
                     queries + count_queries(f, idx))

\* The body run after the first (recursive) call returned.
read_frame_after(f, first, idx, negative) ==
    read_frame_body(f, first.cache, idx, negative, first.queries)

NothingRead(cache) ==
    [ error |-> "ok", ret |-> None, cache |-> cache, queries |-> 0 ]

read_frame(f, cache, idx, negative) ==
    IF index_error(f, idx) \/ (needs_initial_frame(cache, idx) /\ index_error(f, 0))
    THEN [ error |-> "IndexError", ret |-> None, cache |-> cache, queries |-> 0 ]
    ELSE read_frame_after(f,
                          IF needs_initial_frame(cache, idx)
                          THEN read_frame_body(f, cache, 0, negative, 0)
                          ELSE NothingRead(cache),
                          idx, negative)

(***************************************************************************)
(* HOOMDTrajectory._should_write()                                         *)
(***************************************************************************)

\* Line 225: data is None (N is an int and never None).
is_absent(P, name) == name # "N" /\ P[name] = None

\* getattr(container, name) of a present attribute.
attribute(P, name) == IF name = "N" THEN P["N"] ELSE P[name][1]

\* Line 231: numpy.all(initial_data == data).  N compares as a number,
\* types as a list, the others as arrays.
matches_initial(cache, P, name) ==
    IF name \in {"N", "types"}
    THEN attribute(cache[1].particles, name) = attribute(P, name)
    ELSE all_equal_arrays(attribute(cache[1].particles, name), attribute(P, name))

\* Line 235: numpy.all(data == container._default_value[name]).
matches_default(P, name) ==
    IF name \in {"N", "types"}
    THEN attribute(P, name) = default_value(name)
    ELSE all_equal_default(attribute(P, name), default_value(name))

\* _should_write without lines 235-237: a value equal to the default is
\* written.
should_write_defaults(cache, P, name) ==
    IF is_absent(P, name) THEN FALSE
    ELSE IF cache # None /\ matches_initial(cache, P, name) THEN FALSE
    ELSE TRUE

should_write(cache, P, name) ==
    IF is_absent(P, name) THEN FALSE
    ELSE IF cache # None /\ matches_initial(cache, P, name) THEN FALSE
    ELSE IF matches_default(P, name) THEN FALSE
    ELSE TRUE

(***************************************************************************)
(* HOOMDTrajectory.append()                                                *)
(***************************************************************************)

\* Lines 194-195: the catalog names chosen for writing, in catalog order.
write_list(cache, P) == SelectSeq(Catalog, LAMBDA name : should_write(cache, P, name))

\* Lines 199-204: the buffer handed to write_chunk.
chunk_data(P, name) ==
    IF name = "N" THEN << P["N"] >>
    ELSE IF name = "types" THEN encode_types(attribute(P, name))
    ELSE attribute(P, name)

\* Lines 201-203: building the types buffer fails for an empty list and
\* for a name that is not ASCII.
encode_error(P, name) ==
    /\ name = "types"
    /\ ~(encode_types_ok(attribute(P, name)) /\ encode_types_ascii(attribute(P, name)))

\* Lines 188-190: frame 0 is read as the reference when the cache is unset
\* and the file has a frame.
preload_initial_frame(f, cache) ==
    IF cache = None /\ nframes(f) > 0
    THEN read_frame(f, cache, 0, "absent")
    ELSE NothingRead(cache)

\* The write loop, lines 192-206: the first step at which it stops is the
\* first name whose encoding fails or whose write_chunk (the fail_at-th call,
\* 0 for none) fails in the file.
write_stop(W, P, fail_at) ==
    Min({ i \in 1..Len(W) : encode_error(P, W[i]) \/ i = fail_at }
        \cup { Len(W) + 1 })

write_error(W, P, stop) ==
    IF stop > Len(W) THEN "ok"
    ELSE IF encode_error(P, W[stop])
         THEN IF encode_types_ok(attribute(P, W[stop])) THEN "UnicodeEncodeError"
              ELSE "ValueError(max)"
    ELSE "IOError"

\* The file after the write_chunk calls before the stop.
stage_chunks(f, W, P, stop) ==
    [ f EXCEPT !.staged =
        [ name \in CatalogSet |->
            IF \E i \in 1..(stop - 1) : W[i] = name
            THEN Some(chunk_data(P, name))
            ELSE f.staged[name] ] ]

\* Line 208 when the loop ran to its end; the result of the call.
append_commit(staged, pre, P, W, stop, err) ==
    [ error |-> err,
      file |-> IF err = "ok" THEN end_frame(staged) ELSE staged,
      cache |-> pre.cache,
      written |-> SubSeq(W, 1, stop - 1),
      end_frames |-> IF err = "ok" THEN 1 ELSE 0,
      particles |-> IF err = "ok" THEN P ELSE NewParticleData,
      queries |-> pre.queries ]

append_stop(f, pre, P, W, stop) ==
    append_commit(stage_chunks(f, W, P, stop), pre, P, W, stop,
                  write_error(W, P, stop))

append_write(f, pre, P, W, fail_at) ==
    append_stop(f, pre, P, W, write_stop(W, P, fail_at))

\* Line 186 raised: nothing after it runs.
append_rejected(f, cache, error) ==
    [ error |-> error, file |-> f, cache |-> cache, written |-> <<>>,
      end_frames |-> 0, particles |-> NewParticleData, queries |-> 0 ]

(***************************************************************************)
(* Inputs of the calls.                                                    *)
(***************************************************************************)

\* Type name lists a caller supplies: empty, the default, another one.
TypeLists == { <<>>, << NameA >>, << NameB >> }

\* Particle counts a caller supplies.
ParticleCounts == 0..2

\* Per-particle attributes a caller supplies.
UserFields == { "position", "moment_inertia" }

\* An element or row that differs from the attribute's default.
other_value(name) ==
    IF Cols(name) = 0 THEN default_value(name) + 1
    ELSE [ default_value(name) EXCEPT ![1] = @ + 1 ]

\* The flat elements of m entries that all hold value.
flat_data(name, value, m) ==
    IF Cols(name) = 0 THEN [ i \in 1..m |-> value ]
    ELSE [ i \in 1..(m * Cols(name)) |-> value[((i - 1) % Cols(name)) + 1] ]

\* Data a caller supplies for an attribute of a snapshot of n particles: n
\* entries at the default or at another value, and n entries at another
\* value followed by a stray element (a count that does not fit n).
FieldData(name, n) ==
    { flat_data(name, default_value(name), n),
      flat_data(name, other_value(name), n),
      Append(flat_data(name, other_value(name), n), 0) }

\* Snapshots passed to append: any N, and at most one other attribute set.
UserSnapshots ==
    LET base == { [ NewParticleData EXCEPT !["N"] = n ] : n \in ParticleCounts }
    IN  base
        \cup { [ P EXCEPT !["types"] = Some(t) ] : P \in base, t \in TypeLists }
        \cup UNION { { [ P EXCEPT ![name] = Some(d) ] :
                         d \in FieldData(name, P["N"]) } :
                     P \in base, name \in UserFields }

\* Frame indexes passed to read_frame: from one below 0 to one past the
\* last frame.
FrameIndexes(f) == (-1)..nframes(f)

\* What the file does when asked for a chunk of a frame below 0.
NegativeFrame == { "absent", "error" }

\* The present attributes of S whose element count does not fit S.N.
misfits(S) ==
    { name \in PerParticle : S[name] # None
                             /\ ~reshape_ok(S[name][1], S["N"], Cols(name)) }

(***************************************************************************)
(* The state machine.                                                      *)
(***************************************************************************)
NoCall == [ op |-> "none", idx |-> 0, error |-> "ok", ret |-> None,
            written |-> <<>>, end_frames |-> 0, queries |-> 0,
            particles |-> NewParticleData, misfits |-> {} ]

\* A handle over a newly created file (create(), lines 340-342).
Init ==
    /\ file = [ frames |-> <<>>, staged |-> NoChunks ]
    /\ initial_frame = None
    /\ last = NoCall
    /\ history = <<>>
    /\ stale = {}

\* The state after an append call with result r for the input S.
AppendResult(S, r) ==
    /\ file' = r.file
    /\ initial_frame' = r.cache
    /\ last' = [ NoCall EXCEPT !.op = "append", !.error = r.error,
                               !.written = r.written,
                               !.end_frames = r.end_frames,
                               !.queries = r.queries,
                               !.particles = r.particles,
                               !.misfits = misfits(S) ]
    /\ history' = IF r.end_frames = 1
                  THEN Append(history,
                              [ particles |-> r.particles,
                                leaked |-> stale \ { r.written[i] : i \in 1..Len(r.written) } ])
                  ELSE history
    /\ stale' = IF r.end_frames = 1 THEN {}
                ELSE stale \cup { r.written[i] : i \in 1..Len(r.written) }

\* traj.append(S).  Any one of the write_chunk calls may fail in the file
\* (fail_at names which; 0: none does).
CallAppend(S) ==
    LET v == validate(S)
    IN  IF v.error # "ok"
        THEN AppendResult(S, append_rejected(file, initial_frame, v.error))
        ELSE LET pre == preload_initial_frame(file, initial_frame)
                 W   == write_list(pre.cache, v.particles)
             IN  \E fail_at \in 0..Len(W) :
                    AppendResult(S, append_write(file, pre, v.particles, W, fail_at))

\* traj.read_frame(idx)
CallReadFrame(idx, negative) ==
    LET r == read_frame(file, initial_frame, idx, negative)
    IN  /\ initial_frame' = r.cache
        /\ last' = [ NoCall EXCEPT !.op = "read_frame", !.idx = idx,
                                   !.error = r.error, !.ret = r.ret,
                                   !.queries = r.queries ]
        /\ UNCHANGED << file, history, stale >>

\* HOOMDTrajectory(file): a new handle over the same file object.
CallOpen ==
    /\ initial_frame' = None
    /\ last' = [ NoCall EXCEPT !.op = "open" ]
    /\ UNCHANGED << file, history, stale >>

Next ==
    \/ /\ nframes(file) < MaxFrames
       /\ \E S \in UserSnapshots : CallAppend(S)
    \/ \E idx \in FrameIndexes(file) :
          \E negative \in IF idx < 0 THEN NegativeFrame ELSE {"absent"} :
             CallReadFrame(idx, negative)
    \/ CallOpen

Spec == Init /\ [][Next]_vars

(***************************************************************************)
(* HOOMDTrajectory.__init__ on files of any schema: the file carries its   *)
(* schema name and version, and append and read_frame are called only      *)
(* through a handle whose construction returned.                           *)
(***************************************************************************)

\* Schema names and versions a GSD file may declare.
Schemas == { "hoomd", "HOOMD", "hoomd2", "" }
SchemaVersions == { <<0, 0>>, <<0, 1>>, <<0, 2>>, <<1, 0>>, <<1, 1>> }

\* __init__ accepting any version of the hoomd schema.
init_error_any_version(f) ==
    IF f.schema # "hoomd" THEN "RuntimeError(schema)" ELSE "ok"

\* Lines 158-161: RuntimeError unless the schema name is 'hoomd' and the
\* version is (0,1).
init_error(f) ==
    IF f.schema # "hoomd" THEN "RuntimeError(schema)"
    ELSE IF f.schema_version # <<0, 1>> THEN "RuntimeError(version)"
    ELSE "ok"

\* A handle exists: the last construction returned, or a call was made
\* through the handle since.
HandleUsable ==
    \/ last.op = "open" /\ last.error = "ok"
    \/ last.op \in { "append", "read_frame" }

InitAnyFile ==
    /\ file \in { [ frames |-> <<>>, staged |-> NoChunks,
                     schema |-> s, schema_version |-> v ] :
                   s \in Schemas, v \in SchemaVersions }
    /\ initial_frame = None
    /\ last = NoCall
    /\ history = <<>>
    /\ stale = {}

\* HOOMDTrajectory(file), lines 152-163.
CallConstruct ==
    /\ initial_frame' = None
    /\ last' = [ NoCall EXCEPT !.op = "open", !.error = init_error(file) ]
    /\ UNCHANGED << file, history, stale >>

NextOpen ==
    \/ CallConstruct
    \/ /\ HandleUsable /\ nframes(file) = 0
       /\ \E S \in UserSnapshots : CallAppend(S)
    \/ /\ HandleUsable
       /\ \E idx \in 0..nframes(file) : CallReadFrame(idx, "absent")

OpenSpec == InitAnyFile /\ [][NextOpen]_vars

(***************************************************************************)
(* Appends of snapshots that set several attributes at once.               *)
(***************************************************************************)

\* The attributes set together, each absent or at a value that is not its
\* default.
SetTogether == { "typeid", "position", "image" }

ManyFieldSnapshots ==
    { [ name \in CatalogSet |->
          IF name = "N" THEN n
          ELSE IF name = "types" THEN t
          ELSE IF name \in present
               THEN Some(flat_data(name, other_value(name), n))
               ELSE None ] :
        n \in { 1, 2 }, t \in { None, Some(<< NameB >>) }, present \in SUBSET SetTogether }

NextMany ==
    \/ /\ nframes(file) < MaxFrames
       /\ \E S \in ManyFieldSnapshots : CallAppend(S)
    \/ CallOpen

ManySpec == Init /\ [][NextMany]_vars

(***************************************************************************)
(* validate() on its own: snapshots that set up to two per-particle        *)
(* attributes, each with data that fits N or does not.  history holds the  *)
(* snapshot the last call was given, last what the call made of it.        *)
(***************************************************************************)

\* S with attribute name set to data d.
with_field(S, name, d) == [ S EXCEPT ![name] = Some(d) ]

ValidateSnapshots ==
    LET base == { [ NewParticleData EXCEPT !["N"] = n ] : n \in ParticleCounts }
        one  == UNION { { with_field(P, name, d) : d \in FieldData(name, P["N"]) } :
                        P \in base, name \in PerParticle }
        two  == UNION { { with_field(P, name, d) : d \in FieldData(name, P["N"]) } :
                        P \in one, name \in PerParticle }
    IN  base \cup one \cup two

\* snapshot.particles.validate()
CallValidate(S) ==
    LET v == validate(S)
    IN  /\ last' = [ NoCall EXCEPT !.op = "validate", !.error = v.error,
                                   !.particles = v.particles,
                                   !.misfits = misfits(S) ]
        /\ history' = << [ particles |-> S, leaked |-> {} ] >>
        /\ UNCHANGED << file, initial_frame, stale >>

NextValidate == \E S \in ValidateSnapshots : CallValidate(S)

ValidateSpec == Init /\ [][NextValidate]_vars

(***************************************************************************)
(* The types chunk on its own: snapshots that set only types, with names   *)
(* of several lengths and characters, appended to the new file and read    *)
(* back.                                                                   *)
(***************************************************************************)

\* Bounds: the longest name and the longest list of names.
MaxNameLen == 2
MaxNames == 3

\* Characters of a name: NUL, 'A', 'B' and U+00E9 (two bytes in UTF-8).
CodePoints == { 0, 65, 66, 233 }

Names == UNION { [ 1..n -> CodePoints ] : n \in 0..MaxNameLen }

\* The non-empty lists of names.
NameLists == UNION { [ 1..n -> Names ] : n \in 1..MaxNames }

TypeSnapshots == { [ NewParticleData EXCEPT !["types"] = Some(t) ] : t \in NameLists }

NextTypes ==
    \/ /\ nframes(file) = 0
       /\ \E S \in TypeSnapshots : CallAppend(S)
    \/ \E idx \in 0..(nframes(file) - 1) : CallReadFrame(idx, "absent")

TypesSpec == Init /\ [][NextTypes]_vars


(***************************************************************************)
(* Properties.                                                             *)
(***************************************************************************)

\* The last call was a read_frame that returned a snapshot.
ReadReturned == last.op = "read_frame" /\ last.error = "ok"

\* The last call was an append that committed a frame.
AppendCommitted == last.op = "append" /\ last.error = "ok"

\* The names write_chunk was called for by the last call.
WrittenNames == { last.written[i] : i \in 1..Len(last.written) }

\* The contents of frame 0 as a handle with no cache resolves them.
Frame0 == build_snapshot(file, None, 0, 1).particles

\* P supplies name with exactly the value Q holds for it.
SameValue(P, Q, name) == P[name] = Q[name]

\* C1 (as claimed): reading back a frame committed by a successful append
\* returns N and every attribute the snapshot supplied with the validated
\* value that was supplied.
C1_RoundTrip ==
    (ReadReturned /\ last.idx \in 0..(nframes(file) - 1)) =>
        LET S == history[last.idx + 1].particles
            R == last.ret[1].particles
        IN  /\ R["N"] = S["N"]
            /\ \A name \in CatalogSet \ {"N"} :
                  S[name] # None => SameValue(R, S, name)


\* C2 (as claimed): with frame 0 in the file, a frame k >= 1 appended with
\* frame 0's N and with an attribute equal to frame 0's value gets no chunk
\* for that attribute, and read_frame(k) returns frame 0's value for it,
\* taken from the cached frame 0.
C2_Frame0Diffing ==
    /\ (AppendCommitted /\ nframes(file) >= 2) =>
          \A name \in CatalogSet :
             ( /\ ~is_absent(last.particles, name)
               /\ last.particles["N"] = Frame0["N"]
               /\ SameValue(last.particles, Frame0, name) )
             => /\ name \notin WrittenNames
                /\ ~chunk_exists(file, nframes(file) - 1, name)
    /\ (ReadReturned /\ last.idx \in 1..(nframes(file) - 1)) =>
          LET S == history[last.idx + 1].particles
              R == last.ret[1]
          IN  \A name \in CatalogSet :
                 ( /\ ~is_absent(S, name)
                   /\ S["N"] = Frame0["N"]
                   /\ SameValue(S, Frame0, name) )
                 => /\ SameValue(R.particles, Frame0, name)
                    /\ name \in PerParticle => R.source[name] = "frame0"

\* N is 0, types is absent or ['A'] and every present array holds only
\* default entries.
AllDefaults(P) ==
    \A name \in CatalogSet : is_absent(P, name) \/ matches_default(P, name)

\* The snapshot read_frame rebuilds when nothing is stored: every
\* attribute at its default, the arrays broadcast to N entries.
DefaultParticles(N) ==
    [ name \in CatalogSet |->
        IF name = "N" THEN N
        ELSE IF name = "types" THEN Some(default_value("types"))
        ELSE Some(broadcast_default(default_value(name), N)) ]

\* The first frame was committed to a file that held nothing: no frame and
\* no staged chunk.
Frame0OnEmptyFile == nframes(file) >= 1 /\ history[1].leaked = {}

\* C3: an append of an all-default snapshot to an empty file calls
\* write_chunk for nothing and end_frame once, frame 0 holds no chunk, and
\* read_frame(0) returns N and types at their defaults and every array as
\* its default broadcast to that N.
C3_DefaultElision ==
    /\ ( /\ AppendCommitted /\ nframes(file) = 1 /\ Frame0OnEmptyFile
         /\ AllDefaults(last.particles) )
       => /\ last.written = <<>>
          /\ last.end_frames = 1
          /\ file.frames[1] = NoChunks
    /\ ( /\ ReadReturned /\ last.idx = 0 /\ Frame0OnEmptyFile
         /\ AllDefaults(history[1].particles) )
       => last.ret[1].particles = DefaultParticles(default_value("N"))

\* C3 witness: frame 0 came from an all-default snapshot that supplied
\* types = ['A'] and was read back.
C3_Witness ==
    /\ ReadReturned /\ last.idx = 0 /\ Frame0OnEmptyFile
    /\ AllDefaults(history[1].particles)
    /\ history[1].particles["types"] = Some(default_value("types"))
    /\ file.frames[1] = NoChunks

\* C4: once the cache is set, every later call on the handle leaves it
\* bound to the same snapshot, with the same attribute values.
C4_CacheMonotonic ==
    [][ (initial_frame # None /\ last'.op # "open")
        => /\ initial_frame' # None
           /\ initial_frame'[1].id = initial_frame[1].id
           /\ initial_frame'[1].particles = initial_frame[1].particles ]_vars

\* C4 witness: frame 0 was read again while the cache was set, and the
\* call returned a snapshot other than the cache.
C4_Witness ==
    /\ ReadReturned /\ last.idx = 0
    /\ initial_frame # None
    /\ last.ret[1].id # initial_frame[1].id

\* C5 (as claimed): read_frame with a negative index raises IndexError and
\* returns nothing.
C5_NegativeIndexFails ==
    (last.op = "read_frame" /\ last.idx < 0)
    => (last.error = "IndexError" /\ last.ret = None)

\* C6: read_frame(idx) with idx >= len raises IndexError, makes no
\* chunk_exists or read_chunk call and leaves the cache and the file as
\* they were.
C6_OutOfRangeRead ==
    [][ (last'.op = "read_frame" /\ last'.idx >= nframes(file))
        => /\ last'.error = "IndexError"
           /\ last'.ret = None
           /\ last'.queries = 0
           /\ initial_frame' = initial_frame
           /\ file' = file ]_vars

\* C6 witness: a read one past the last frame of a file that holds a
\* frame, on a handle whose cache is unset.
C6_Witness ==
    /\ last.op = "read_frame" /\ last.idx >= nframes(file)
    /\ nframes(file) >= 1
    /\ initial_frame = None
    /\ last.error = "IndexError"

\* C7 (as claimed): an append commits every chunk it chose and one frame,
\* or it fails and no chunk it staged is part of a committed frame.
C7_NoPartialAppend ==
    /\ \A k \in 1..Len(history) : history[k].leaked = {}
    /\ last.op = "append" =>
          \/ last.error = "ok" /\ last.end_frames = 1
          \/ last.error # "ok" /\ last.end_frames = 0

\* C8 (as claimed): an append of a snapshot with an attribute whose element
\* count does not fit N raises the reshape error before any write_chunk,
\* calls no end_frame and leaves the frame count and the cache unchanged.
C8_ShapeErrorAborts ==
    [][ (last'.op = "append" /\ last'.misfits # {})
        => /\ last'.error = "ValueError(reshape)"
           /\ last'.written = <<>>
           /\ last'.end_frames = 0
           /\ nframes(file') = nframes(file)
           /\ initial_frame' = initial_frame ]_vars

\* C9 (as claimed): no snapshot read_frame returns is the cached snapshot.
C9_CacheNotReturned ==
    (ReadReturned /\ initial_frame # None)
    => last.ret[1].id # initial_frame[1].id

\* C10: in a returned snapshot every per-particle array whose chunk the
\* frame lacks is read-only.
C10_FallbackReadOnly ==
    ReadReturned =>
        \A name \in PerParticle :
            ~chunk_exists(file, last.idx, name)
            => last.ret[1].writeable[name] = FALSE

\* C10 witness: a returned snapshot with one array read from a chunk and
\* another one aliased from the cached frame 0.
C10_Witness ==
    /\ ReadReturned
    /\ \E name \in PerParticle : last.ret[1].source[name] = "frame0"
    /\ \E name \in PerParticle : last.ret[1].source[name] = "chunk"

\* C12: constructing a handle succeeds exactly when the file's schema is
\* 'hoomd' and its schema version is (0,1); the constructor reads no chunk
\* and writes nothing, and after a failed construction no call is made
\* through a handle on that file.
C12_ConstructionSchemaCheck ==
    [][ /\ last'.op = "open" =>
              /\ last'.error = "ok" <=> (file.schema = "hoomd" /\ file.schema_version = <<0, 1>>)
              /\ last'.queries = 0 /\ last'.written = <<>> /\ last'.end_frames = 0
              /\ file' = file
              /\ initial_frame' = None
        /\ last'.op \in { "append", "read_frame" } =>
              (file.schema = "hoomd" /\ file.schema_version = <<0, 1>>) ]_vars

\* C12 witness: a file with the right schema name and another version, on
\* which the construction failed.
C12_Witness ==
    /\ last.op = "open" /\ last.error # "ok"
    /\ file.schema = "hoomd" /\ file.schema_version = <<0, 2>>

\* The UTF-8 bytes of a str (characters below U+0800).
RECURSIVE utf8(_)
utf8(name) ==
    IF name = <<>> THEN <<>>
    ELSE (IF Head(name) < 128 THEN << Head(name) >>
          ELSE << 192 + (Head(name) \div 64), 128 + (Head(name) % 64) >>)
         \o utf8(Tail(name))

\* The row of width wid that holds bytes left-justified, zero padded.
PaddedRow(bytes, wid) ==
    [ j \in 1..wid |-> IF j <= Len(bytes) THEN bytes[j] ELSE 0 ]

\* C11 (as claimed): for any non-empty list of names, append encodes types
\* without an encoding error as a matrix with one row per name and (byte
\* length of the longest name) + 1 columns, each row the name's bytes
\* followed by zeros, and read_frame decodes a stored types chunk to the
\* list of names that was appended.
C11_TypesRoundTrip ==
    /\ last.op = "append" => last.error \in { "ok", "IOError" }
    /\ (AppendCommitted /\ "types" \in WrittenNames) =>
          LET names == last.particles["types"][1]
              m == file.frames[nframes(file)]["types"][1]
              wid == Max({ Len(utf8(names[i])) : i \in 1..Len(names) }) + 1
          IN  /\ Len(m) = Len(names)
              /\ \A i \in 1..Len(names) : m[i] = PaddedRow(utf8(names[i]), wid)
    /\ (ReadReturned /\ chunk_exists(file, last.idx, "types")) =>
          last.ret[1].particles["types"] = history[last.idx + 1].particles["types"]

\* P holds the default for name: N is 0, types is ['A'], an array is the
\* default entry repeated N times.
HoldsDefault(P, name) ==
    IF name = "N" THEN P["N"] = default_value("N")
    ELSE SameValue(P, DefaultParticles(P["N"]), name)

\* C13 (as claimed): a successful append writes the chunk of a catalog
\* field exactly when the field is present, its value is not the value
\* frame 0 holds for it (or the file had no frame, so the cache was unset),
\* and its value is not the field's default.
C13_WriteDecision ==
    AppendCommitted =>
        \A name \in CatalogSet :
            name \in WrittenNames <=>
                /\ ~is_absent(last.particles, name)
                /\ nframes(file) = 1 \/ ~SameValue(last.particles, Frame0, name)
                /\ ~HoldsDefault(last.particles, name)

\* The errors validate() raises, before append makes any write decision.
ValidationErrors == { "AttributeError", "ValueError(reshape)" }

\* C14: a read_frame(idx) with idx # 0 that resolves the frame does so with
\* the cache holding frame 0; an append that got past validate() on a file
\* with a frame makes its write decisions with the cache holding frame 0;
\* an append to a file with no frame makes them with the cache unset and
\* leaves it unset.
C14_ReferenceFrameLoaded ==
    [][ /\ (last'.op = "read_frame" /\ last'.idx # 0 /\ last'.error = "ok") =>
              /\ initial_frame' # None
              /\ initial_frame'[1].particles = Frame0
              /\ last'.ret[1].particles
                   = build_snapshot(file, initial_frame', last'.idx, 0).particles
        /\ (last'.op = "append" /\ last'.error \notin ValidationErrors) =>
              IF nframes(file) = 0
              THEN /\ initial_frame = None /\ initial_frame' = None
                   /\ last'.error = "ok" =>
                         last'.written = write_list(None, last'.particles)
              ELSE /\ initial_frame' # None
                   /\ initial_frame'[1].particles = Frame0
                   /\ last'.error = "ok" =>
                         last'.written = write_list(initial_frame', last'.particles)
      ]_vars

\* C14 witness: a frame other than 0 was read on a handle whose cache was
\* unset, so that two frames were resolved by the one call.
C14_Witness ==
    /\ ReadReturned /\ last.idx >= 1
    /\ last.queries >= 2 * Len(Catalog)
    /\ initial_frame # None

\* The position of a name in the order the catalog is given in.
CatalogIndex(name) ==
    CHOOSE i \in 1..12 :
        << "N", "types", "typeid", "mass", "charge", "diameter", "moment_inertia",
           "position", "orientation", "velocity", "angmom", "image" >>[i] = name

\* C15: a successful append calls write_chunk in catalog order, at most
\* once per field, then end_frame once; the frame count grows by one and
\* the frames committed before are unchanged.
C15_AppendOrderAndCommit ==
    [][ (last'.op = "append" /\ last'.error = "ok") =>
          /\ \A i, j \in 1..Len(last'.written) :
                i < j => CatalogIndex(last'.written[i]) < CatalogIndex(last'.written[j])
          /\ last'.end_frames = 1
          /\ nframes(file') = nframes(file) + 1
          /\ SubSeq(file'.frames, 1, nframes(file)) = file.frames
      ]_vars

\* C15 witness: a second frame committed with five chunks written: N,
\* types and three arrays.
C15_Witness ==
    /\ AppendCommitted /\ nframes(file) = 2
    /\ Len(last.written) >= 5

\* C16: in a returned snapshot whose N differs from the cached frame 0's N,
\* every per-particle attribute without a chunk in the frame is the default
\* broadcast to the snapshot's N; an attribute is frame 0's array only when
\* the two counts are equal.
C16_FallbackUnderChangedN ==
    (ReadReturned /\ initial_frame # None) =>
        LET R == last.ret[1]
            C == initial_frame[1]
        IN  \A name \in PerParticle :
                ~chunk_exists(file, last.idx, name) =>
                    /\ R.particles["N"] # C.particles["N"] =>
                          /\ R.source[name] = "default"
                          /\ R.particles[name]
                               = Some(broadcast_default(default_value(name), R.particles["N"]))
                    /\ R.source[name] = "frame0" =>
                          /\ R.particles["N"] = C.particles["N"]
                          /\ R.particles[name] = C.particles[name]

\* C16 witness: a frame read with an N other than frame 0's, while frame 0
\* holds positions that are not the default.
C16_Witness ==
    /\ ReadReturned /\ initial_frame # None
    /\ last.ret[1].particles["N"] = 2
    /\ initial_frame[1].particles["N"] = 1
    /\ initial_frame[1].source["position"] = "chunk"
    /\ last.ret[1].source["position"] = "default"

OnlySuccessfulAppends == \A k \in 1..Len(history) : history[k].leaked = {}

\* C18: on a file whose frames hold only what successful appends wrote,
\* every per-particle attribute of a returned snapshot is present and has
\* as many leading entries as the snapshot's N.
C18_ReadShapes ==
    (ReadReturned /\ OnlySuccessfulAppends) =>
        \A name \in PerParticle :
            /\ last.ret[1].particles[name] # None
            /\ Len(last.ret[1].particles[name][1]) = last.ret[1].particles["N"]

\* C18 witness: a frame after frame 0 without an N chunk, read back with a
\* position array from its chunk and the other arrays from frame 0.
C18_Witness ==
    /\ ReadReturned /\ OnlySuccessfulAppends
    /\ last.idx >= 1
    /\ ~chunk_exists(file, last.idx, "N")
    /\ last.ret[1].particles["N"] = 2
    /\ last.ret[1].source["position"] = "chunk"
    /\ last.ret[1].source["image"] = "frame0"

\* What a new handle over a file with the same committed frames, and
\* nothing staged, returns for frame idx.
FreshHandleRead(idx) ==
    read_frame([ file EXCEPT !.staged = NoChunks ], None, idx, "absent").ret[1].particles

\* C19: the contents read_frame returns for a committed frame are the ones
\* a new handle over the same committed frames returns, whatever calls the
\* handle made before.
C19_HistoryIndependence ==
    (ReadReturned /\ last.idx \in 0..(nframes(file) - 1)) =>
        last.ret[1].particles = FreshHandleRead(last.idx)

\* C19 witness: a frame after frame 0 read on a handle whose cache an
\* earlier call had set, with an array taken from the cached frame 0 that
\* is not the default.
C19_Witness ==
    /\ ReadReturned /\ last.idx >= 1
    /\ last.queries < 2 * Len(Catalog)
    /\ last.ret[1].source["position"] = "frame0"
    /\ ~matches_default(last.ret[1].particles, "position")

====
